---- MODULE Spec2Model ----
(***************************************************************************)
(* Model of the piston demo in src/src/main.rs: the App state (player      *)
(* position and the `expand` effect), the three handlers handleKey,        *)
(* App::update and App::render, and the event loop of main that dispatches *)
(* every event of the event source to them.                                *)
(*                                                                         *)
(* Numbers.  The fields are f64.  Every value the model computes is a      *)
(* multiple of 1/4 of small magnitude, on which f64 addition, subtraction  *)
(* and division by 2.0 are exact, so a value v is represented by the       *)
(* integer v * Unit.                                                       *)
(***************************************************************************)
EXTENDS Integers, Sequences, FiniteSets, TLC

Unit == 4

\* the f64 literal n.0
F(n) == n * Unit

\* v / 2.0
Half(v) == v \div 2

\* ceil(v) as a whole number, for a fixed-point v
Ceil(v) == (v + Unit - 1) \div Unit

(***************************************************************************)
(* Bounds of the model.                                                    *)
(***************************************************************************)
\* the player stays within MaxStep key presses of the start on each axis
MaxStep == 6
\* Space is delivered only while expand + 10 <= 10 * MaxSpace
MaxSpace == 3
\* number of direct handler calls in the handler harness
MaxCalls == 3
\* largest start magnitude (whole units) of the decay harness
MaxM == 8
\* update calls made beyond ceil(M) in the decay harness
MaxExtra == 2
\* press events the stepwise loop takes
MaxKeys == 3
\* the fair loop keeps the player within MaxLiveStep presses of the start
MaxLiveStep == 1

(***************************************************************************)
(* Inputs.                                                                 *)
(***************************************************************************)
\* input::Button values: five keys the handler knows, one other keyboard
\* key and one mouse button
Arrows == {"Up", "Down", "Left", "Right"}
Buttons == Arrows \cup {"Space", "A", "MouseLeft"}
OtherButtons == Buttons \ (Arrows \cup {"Space"})

\* RenderArgs: canvas extents
RenderArgsSet ==
  {[width |-> 640, height |-> 480], [width |-> 800, height |-> 600],
   [width |-> 100, height |-> 100]}
\* UpdateArgs: elapsed time, in milliseconds
UpdateArgsSet == {[dt |-> 8], [dt |-> 16]}

PressEvents == {[kind |-> "press", button |-> b] : b \in Buttons}
RenderEvents == {[kind |-> "render", args |-> a] : a \in RenderArgsSet}
UpdateEvents == {[kind |-> "update", args |-> a] : a \in UpdateArgsSet}
EventSet == PressEvents \cup RenderEvents \cup UpdateEvents
NoEvent == [kind |-> "none"]

\* colours, components in tenths
Grey == <<6, 6, 6, 10>>
Red == <<10, 0, 0, 10>>

VARIABLES
  app,      \* the App of main: [gl, expand, player |-> [x, y]]; gl is the
            \* list of draw commands the backend received during the latest
            \* loop iteration (or harness call)
  ev,       \* the event of the latest loop iteration
  called,   \* handlers invoked by the latest loop iteration, in order
  due,      \* event source: signals of the current frame not yet delivered
  ran,      \* handlers that ran in the current frame
  runs,     \* how often update and render ran in the current frame
  running,  \* the for loop of main has not ended
  start,    \* harness: the App the calls started from
  calls,    \* harness: the direct handler calls made, with their results
  scen,     \* progress through the scenario of section 8, or Off
  net,      \* Right presses minus Left presses, Down presses minus Up presses
  pc,       \* stepwise loop: the statement of the loop body main is at
  executing,\* stepwise loop: handlers entered and not yet returned
  delivered,\* stepwise loop: buttons of the press events delivered, in order
  applied   \* stepwise loop: buttons handleKey has applied, in order

vars == <<app, ev, called, due, ran, runs, running, start, calls, scen, net,
          pc, executing, delivered, applied>>

\* the variables of the stepwise loop
stepvars == <<pc, executing, delivered, applied>>

(***************************************************************************)
(* The state and the handlers.                                             *)
(***************************************************************************)
\* variant: the player starts at the origin
Player0_Origin == [x |-> 0, y |-> 0]

\* main: Player { x: 50.0, y: 50.0 } and App { gl, expand: 0.0, player }
Player0 == [x |-> F(50), y |-> F(50)]
App0 == [gl |-> <<>>, expand |-> 0, player |-> Player0]

\* context.rgba(..).draw(gl) with no shape: the colour fills the whole
\* canvas of Context::abs(width, height)
DrawBackground(gl, args, color) ==
  Append(gl, [op |-> "clear", width |-> args.width, height |-> args.height, color |-> color])

\* context.rect(x, y, w, h).rgba(..).draw(gl)
DrawRect(gl, rx, ry, rw, rh, color) ==
  Append(gl, [op |-> "rect", x |-> rx, y |-> ry, w |-> rw, h |-> rh, color |-> color])

\* variant: the rectangle is anchored at the position, not centred on it
render_NoOffset(a, args) ==
  LET gl1 == DrawBackground(a.gl, args, Grey)
      gl2 == DrawRect(gl1, a.player.x, a.player.y,
                      a.expand + F(10), a.expand + F(10), Red)
  IN  [a EXCEPT !.gl = gl2]

\* variant: the decay of update is done while rendering
render_Decays(a, args) ==
  LET gl1 == DrawBackground(a.gl, args, Grey)
      gl2 == DrawRect(gl1,
                      a.player.x - Half(a.expand),
                      a.player.y - Half(a.expand),
                      a.expand + F(10),
                      a.expand + F(10),
                      Red)
  IN  [a EXCEPT !.gl = gl2, !.expand = IF @ > 0 THEN @ - F(1) ELSE @]

\* variant: the corner is moved by the whole of expand
render_FullOffset(a, args) ==
  LET gl1 == DrawBackground(a.gl, args, Grey)
      gl2 == DrawRect(gl1,
                      a.player.x - a.expand,
                      a.player.y - a.expand,
                      a.expand + F(10),
                      a.expand + F(10),
                      Red)
  IN  [a EXCEPT !.gl = gl2]

\* App::render
render(a, args) ==
  LET gl1 == DrawBackground(a.gl, args, Grey)
      gl2 == DrawRect(gl1,
                      a.player.x - Half(a.expand),
                      a.player.y - Half(a.expand),
                      a.expand + F(10),
                      a.expand + F(10),
                      Red)
  IN  [a EXCEPT !.gl = gl2]

\* variant: the decrement without its guard
update_NoGuard(a, args) == [a EXCEPT !.expand = @ - F(1)]

\* variant: the decay is scaled by the elapsed time
update_TimeScaled(a, args) ==
  IF a.expand > 0 THEN [a EXCEPT !.expand = @ - F(1) * (args.dt \div 8)] ELSE a

\* variant: the square sinks while the effect decays
update_Sinks(a, args) ==
  IF a.expand > 0
    THEN [a EXCEPT !.expand = @ - F(1), !.player.y = @ + F(10)]
    ELSE a

\* variant: the decay goes in steps of one half
update_HalfStep(a, args) ==
  IF a.expand > 0 THEN [a EXCEPT !.expand = @ - Half(F(1))] ELSE a

\* variant: the decay stops one unit early
update_StopsEarly(a, args) ==
  IF a.expand > F(1) THEN [a EXCEPT !.expand = @ - F(1)] ELSE a

\* App::update
update(a, args) ==
  IF a.expand > 0 THEN [a EXCEPT !.expand = @ - F(1)] ELSE a

\* variant: the default arm falls into the Space arm
handleKey_DefaultTriggers(key, a) ==
  CASE key = "Up" -> [a EXCEPT !.player.y = @ - F(10)]
    [] key = "Down" -> [a EXCEPT !.player.y = @ + F(10)]
    [] key = "Left" -> [a EXCEPT !.player.x = @ - F(10)]
    [] key = "Right" -> [a EXCEPT !.player.x = @ + F(10)]
    [] OTHER -> [a EXCEPT !.expand = @ + F(10)]

\* variant: Left has the sign of Right
handleKey_LeftAdds(key, a) ==
  CASE key = "Up" -> [a EXCEPT !.player.y = @ - F(10)]
    [] key = "Down" -> [a EXCEPT !.player.y = @ + F(10)]
    [] key = "Left" -> [a EXCEPT !.player.x = @ + F(10)]
    [] key = "Right" -> [a EXCEPT !.player.x = @ + F(10)]
    [] key = "Space" -> [a EXCEPT !.expand = @ + F(10)]
    [] OTHER -> a

\* variant: the effect is capped at 20
handleKey_Capped(key, a) ==
  CASE key = "Up" -> [a EXCEPT !.player.y = @ - F(10)]
    [] key = "Down" -> [a EXCEPT !.player.y = @ + F(10)]
    [] key = "Left" -> [a EXCEPT !.player.x = @ - F(10)]
    [] key = "Right" -> [a EXCEPT !.player.x = @ + F(10)]
    [] key = "Space" -> [a EXCEPT !.expand = IF @ + F(10) > F(20) THEN F(20) ELSE @ + F(10)]
    [] OTHER -> a

\* variant: y grows upwards
handleKey_UpDownSwapped(key, a) ==
  CASE key = "Up" -> [a EXCEPT !.player.y = @ + F(10)]
    [] key = "Down" -> [a EXCEPT !.player.y = @ - F(10)]
    [] key = "Left" -> [a EXCEPT !.player.x = @ - F(10)]
    [] key = "Right" -> [a EXCEPT !.player.x = @ + F(10)]
    [] key = "Space" -> [a EXCEPT !.expand = @ + F(10)]
    [] OTHER -> a

\* variant: the square is kept from leaving the canvas at the top and left
handleKey_Clamped(key, a) ==
  CASE key = "Up" -> [a EXCEPT !.player.y = IF @ - F(10) < 0 THEN 0 ELSE @ - F(10)]
    [] key = "Down" -> [a EXCEPT !.player.y = @ + F(10)]
    [] key = "Left" -> [a EXCEPT !.player.x = IF @ - F(10) < 0 THEN 0 ELSE @ - F(10)]
    [] key = "Right" -> [a EXCEPT !.player.x = @ + F(10)]
    [] key = "Space" -> [a EXCEPT !.expand = @ + F(10)]
    [] OTHER -> a

\* handleKey
handleKey(key, a) ==
  CASE key = "Up" -> [a EXCEPT !.player.y = @ - F(10)]
    [] key = "Down" -> [a EXCEPT !.player.y = @ + F(10)]
    [] key = "Left" -> [a EXCEPT !.player.x = @ - F(10)]
    [] key = "Right" -> [a EXCEPT !.player.x = @ + F(10)]
    [] key = "Space" -> [a EXCEPT !.expand = @ + F(10)]
    [] OTHER -> a

(***************************************************************************)
(* The loop of main.  One iteration takes one event e of the event source  *)
(* and runs e.press, e.render and e.update in that order; each calls its   *)
(* closure only for an event of its own kind.  s is [app, called].         *)
(***************************************************************************)
\* the RenderArgs an event carries (those of a 640x480 canvas when it is
\* not a render event; used by the variant of OnRender only)
RenderOf(e) == IF e.kind = "render" THEN e.args ELSE [width |-> 640, height |-> 480]

OnPress(e, s) ==
  IF e.kind = "press"
    THEN [app |-> handleKey(e.button, s.app), called |-> Append(s.called, "handleKey")]
    ELSE s

\* variant: e.render calls its closure for every event
OnRender_Always(e, s) ==
  [app |-> render(s.app, RenderOf(e)), called |-> Append(s.called, "render")]

OnRender(e, s) ==
  IF e.kind = "render"
    THEN [app |-> render(s.app, e.args), called |-> Append(s.called, "render")]
    ELSE s

\* variant: e.update answers to every frame signal
OnUpdate_AnySignal(e, s) ==
  IF e.kind \in {"update", "render"}
    THEN [app |-> update(s.app, e.args), called |-> Append(s.called, "update")]
    ELSE s

OnUpdate(e, s) ==
  IF e.kind = "update"
    THEN [app |-> update(s.app, e.args), called |-> Append(s.called, "update")]
    ELSE s

\* the App as an iteration finds it: the state as left by the previous
\* one, the backend's command list of the iteration empty
Entering(a) == [a EXCEPT !.gl = <<>>]

LoopBody(e, a) ==
  OnUpdate(e, OnRender(e, OnPress(e, [app |-> Entering(a), called |-> <<>>])))

(***************************************************************************)
(* The event source (Events::new(&window)): per frame zero or more key     *)
(* presses, one update signal and one render signal, in an order the       *)
(* program does not control; the sequence ends when the window closes.     *)
(***************************************************************************)
Signals == {"update", "render"}

\* the frame the next event belongs to: a new one once both signals of the
\* current frame have been delivered
FrameDue == IF due = {} THEN Signals ELSE due
FrameRan == IF due = {} THEN {} ELSE ran
FrameRuns == IF due = {} THEN [k \in Signals |-> 0] ELSE runs

\* how often handler h occurs in the sequence c of handler calls
Times(h, c) == Cardinality({i \in 1..Len(c) : c[i] = h})

\* the source can deliver e next (the guards on presses bound the model)
CanDeliver(e) ==
  /\ e.kind \in Signals => e.kind \in FrameDue
  /\ e.kind = "press" =>
       LET a == handleKey(e.button, app) IN
         /\ a.player.x \in (F(50) - F(10) * MaxStep)..(F(50) + F(10) * MaxStep)
         /\ a.player.y \in (F(50) - F(10) * MaxStep)..(F(50) + F(10) * MaxStep)
         /\ a.expand <= F(10) * MaxSpace

\* the count of the arrow presses the event source has delivered
NetNext(n, e) ==
  IF e.kind # "press" THEN n
  ELSE [x |-> n.x + (IF e.button = "Right" THEN 1 ELSE IF e.button = "Left" THEN 0 - 1 ELSE 0),
        y |-> n.y + (IF e.button = "Down" THEN 1 ELSE IF e.button = "Up" THEN 0 - 1 ELSE 0)]

\* the scenario of section 8: Space, ten updates, Right, render; renders
\* before the Right press do not change the state and are skipped
Off == 0 - 1
Script == <<"Space">> \o [i \in 1..10 |-> "update"] \o <<"Right", "render">>
Label(e) == IF e.kind = "press" THEN e.button ELSE e.kind
ScenNext(n, e) ==
  IF n = Off \/ n = Len(Script) THEN Off
  ELSE IF Label(e) = Script[n + 1] THEN n + 1
  ELSE IF e.kind = "render" THEN n
  ELSE Off

\* variant: the loop keeps polling after the event sequence has ended
Loop_IgnoresClose(e) ==
  /\ CanDeliver(e)
  /\ LET s == LoopBody(e, app) IN
       /\ app' = s.app
       /\ called' = s.called
       /\ ran' = FrameRan \cup {s.called[i] : i \in 1..Len(s.called)}
       /\ runs' = [k \in Signals |-> FrameRuns[k] + Times(k, s.called)]
  /\ ev' = e
  /\ due' = FrameDue \ {e.kind}
  /\ scen' = ScenNext(scen, e)
  /\ net' = NetNext(net, e)
  /\ UNCHANGED <<start, calls, stepvars>>

\* one iteration of `for e in Events::new(&window)`
Loop(e) ==
  /\ running
  /\ CanDeliver(e)
  /\ LET s == LoopBody(e, app) IN
       /\ app' = s.app
       /\ called' = s.called
       /\ ran' = FrameRan \cup {s.called[i] : i \in 1..Len(s.called)}
       /\ runs' = [k \in Signals |-> FrameRuns[k] + Times(k, s.called)]
  /\ ev' = e
  /\ due' = FrameDue \ {e.kind}
  /\ scen' = ScenNext(scen, e)
  /\ net' = NetNext(net, e)
  /\ UNCHANGED <<start, calls, stepvars>>

\* the event sequence ends: the for loop exits, main returns
Close ==
  /\ running
  /\ running' = FALSE
  /\ UNCHANGED <<app, ev, called, due, ran, runs, start, calls, scen, net, stepvars>>

Init ==
  /\ app = App0
  /\ ev = NoEvent
  /\ called = <<>>
  /\ due = Signals
  /\ ran = {}
  /\ runs = [k \in Signals |-> 0]
  /\ net = [x |-> 0, y |-> 0]
  /\ running = TRUE
  /\ start = App0
  /\ calls = <<>>
  /\ scen = 0
  /\ pc = "next"
  /\ executing = {}
  /\ delivered = <<>>
  /\ applied = <<>>

Step == \E e \in EventSet : Loop(e) /\ running' = running

Next == Step \/ Close

Spec == Init /\ [][Next]_vars

(***************************************************************************)
(* The running loop with an event source that keeps its frames going:      *)
(* while the window is open, the update signal and the render signal of    *)
(* the current frame are eventually delivered.                             *)
(***************************************************************************)
UpdateStep == \E e \in UpdateEvents : Loop(e) /\ running' = running
RenderStep == \E e \in RenderEvents : Loop(e) /\ running' = running
SpaceStep == Loop([kind |-> "press", button |-> "Space"]) /\ running' = running

\* the steps of the loop, the arrow presses kept within MaxLiveStep of the
\* start on each axis
LiveStep ==
  \E e \in EventSet :
    /\ Loop(e)
    /\ running' = running
    /\ net'.x \in (0 - MaxLiveStep)..MaxLiveStep
    /\ net'.y \in (0 - MaxLiveStep)..MaxLiveStep

NextLive == LiveStep \/ Close

SpecLive == Init /\ [][NextLive]_vars /\ WF_vars(UpdateStep) /\ WF_vars(RenderStep)

(***************************************************************************)
(* The loop of main statement by statement: `next` takes the next event    *)
(* of the iterator, then the three statements of the body run in order.    *)
(* A statement whose event is of its kind calls its closure (Enter) and    *)
(* goes on when the closure has returned (Return); the others fall through *)
(* (Skip).  LoopBody is the composition of the three statements.           *)
(***************************************************************************)
Statements == <<"press", "render", "update">>
HandlerOf(k) == IF k = "press" THEN "handleKey" ELSE k
Following(k) == IF k = "press" THEN "render" ELSE IF k = "render" THEN "update" ELSE "next"
Calling(k) ==
  IF k = "press" THEN "calling handleKey"
  ELSE IF k = "render" THEN "calling render"
  ELSE "calling update"
On(k, e, s) ==
  CASE k = "press" -> OnPress(e, s)
    [] k = "render" -> OnRender(e, s)
    [] k = "update" -> OnUpdate(e, s)

\* Events::next(): the iterator yields e
TakeNext(e) ==
  /\ running
  /\ pc = "next"
  /\ CanDeliver(e)
  /\ e.kind = "press" => Len(delivered) < MaxKeys
  /\ ev' = e
  /\ app' = Entering(app)
  /\ called' = <<>>
  /\ due' = FrameDue \ {e.kind}
  /\ delivered' = IF e.kind = "press" THEN Append(delivered, e.button) ELSE delivered
  /\ pc' = "press"
  /\ UNCHANGED <<ran, runs, running, start, calls, scen, net, executing, applied>>

\* variant: the closure is started and the loop goes on without waiting
Enter_Async(k) ==
  /\ pc = k
  /\ ev.kind = k
  /\ executing' = executing \cup {HandlerOf(k)}
  /\ pc' = Following(k)
  /\ UNCHANGED <<app, ev, called, due, ran, runs, running, start, calls, scen, net, delivered, applied>>

\* e.press(..), e.render(..), e.update(..) on an event of its kind: the
\* closure is called
Enter(k) ==
  /\ pc = k
  /\ ev.kind = k
  /\ executing' = executing \cup {HandlerOf(k)}
  /\ pc' = Calling(k)
  /\ UNCHANGED <<app, ev, called, due, ran, runs, running, start, calls, scen, net, delivered, applied>>

\* the closure returns: its handler has run
Return(k) ==
  /\ HandlerOf(k) \in executing
  /\ LET s == On(k, ev, [app |-> app, called |-> called]) IN
       /\ app' = s.app
       /\ called' = s.called
  /\ applied' = IF k = "press" /\ ev.kind = "press" THEN Append(applied, ev.button) ELSE applied
  /\ executing' = executing \ {HandlerOf(k)}
  /\ pc' = IF pc = Calling(k) THEN Following(k) ELSE pc
  /\ UNCHANGED <<ev, due, ran, runs, running, start, calls, scen, net, delivered>>

\* the statement on an event of another kind does nothing
Skip(k) ==
  /\ pc = k
  /\ ev.kind # k
  /\ pc' = Following(k)
  /\ UNCHANGED <<app, ev, called, due, ran, runs, running, start, calls, scen, net, executing, delivered, applied>>

\* the iterator ends
StepClose ==
  /\ running
  /\ pc = "next"
  /\ running' = FALSE
  /\ UNCHANGED <<app, ev, called, due, ran, runs, start, calls, scen, net, stepvars>>

InitSteps == Init

NextSteps ==
  \/ \E e \in EventSet : TakeNext(e)
  \/ \E n \in 1..Len(Statements) : Enter(Statements[n])
  \/ \E n \in 1..Len(Statements) : Return(Statements[n])
  \/ \E n \in 1..Len(Statements) : Skip(Statements[n])
  \/ StepClose

SpecSteps == InitSteps /\ [][NextSteps]_vars

(***************************************************************************)
(* Handler harness: the handlers called directly, in any order, from any   *)
(* start state the program can be in.  Every call is recorded with the     *)
(* App it left.                                                            *)
(***************************************************************************)
StartCoords == {0 - 10, 50}
StartExpands == {0, 1, 10, 20}
StartApps ==
  {[gl |-> <<>>, expand |-> F(m), player |-> [x |-> F(px), y |-> F(py)]] :
     m \in StartExpands, px \in StartCoords, py \in StartCoords}

Record(op, arg, a) == Append(calls, [op |-> op, arg |-> arg, after |-> a])

Harness == UNCHANGED <<ev, called, due, ran, runs, running, start, scen, net, stepvars>>

CallHandleKey(key) ==
  /\ Len(calls) < MaxCalls
  /\ app' = handleKey(key, Entering(app))
  /\ calls' = Record("handleKey", key, app')
  /\ Harness

CallUpdate(args) ==
  /\ Len(calls) < MaxCalls
  /\ app' = update(Entering(app), args)
  /\ calls' = Record("update", args, app')
  /\ Harness

CallRender(args) ==
  /\ Len(calls) < MaxCalls
  /\ app' = render(Entering(app), args)
  /\ calls' = Record("render", args, app')
  /\ Harness

InitCalls ==
  /\ app \in StartApps
  /\ start = app
  /\ calls = <<>>
  /\ ev = NoEvent
  /\ called = <<>>
  /\ due = Signals
  /\ ran = {}
  /\ runs = [k \in Signals |-> 0]
  /\ net = [x |-> 0, y |-> 0]
  /\ running = FALSE
  /\ scen = Off
  /\ pc = "next"
  /\ executing = {}
  /\ delivered = <<>>
  /\ applied = <<>>

NextCalls ==
  \/ \E key \in Buttons : CallHandleKey(key)
  \/ \E args \in UpdateArgsSet : CallUpdate(args)
  \/ \E args \in RenderArgsSet : CallRender(args)

SpecCalls == InitCalls /\ [][NextCalls]_vars

\* the App before and after the i-th recorded call
Before(i) == IF i = 1 THEN start ELSE calls[i - 1].after
After(i) == calls[i].after

(***************************************************************************)
(* Decay harness: update called repeatedly, with no key press, from any    *)
(* magnitude M > 0 that is a multiple of 1/4.                              *)
(***************************************************************************)
DecayUpdate(args) ==
  /\ Len(calls) < Ceil(start.expand) + MaxExtra
  /\ app' = update(Entering(app), args)
  /\ calls' = Record("update", args, app')
  /\ Harness

InitDecay ==
  /\ \E m \in 1..F(MaxM) : app = [gl |-> <<>>, expand |-> m, player |-> Player0]
  /\ start = app
  /\ calls = <<>>
  /\ ev = NoEvent
  /\ called = <<>>
  /\ due = Signals
  /\ ran = {}
  /\ runs = [k \in Signals |-> 0]
  /\ net = [x |-> 0, y |-> 0]
  /\ running = FALSE
  /\ scen = Off
  /\ pc = "next"
  /\ executing = {}
  /\ delivered = <<>>
  /\ applied = <<>>

NextDecay == \E args \in UpdateArgsSet : DecayUpdate(args)

SpecDecay == InitDecay /\ [][NextDecay]_vars

(***************************************************************************)
(* Properties.                                                             *)
(***************************************************************************)
Same(a, b) == a.player = b.player /\ a.expand = b.expand
IsKey(i, key) == calls[i].op = "handleKey" /\ calls[i].arg = key
Pos(px, py) == [x |-> F(px), y |-> F(py)]
Rect(i) == After(i).gl[2]

\* C1: from the initial state of main, after any sequence of key presses,
\* updates and renders the loop dispatches, expand is never negative.
C1_ExpandNonNegative == app.expand >= 0

\* an update has just run with the effect fully decayed, away from the start
C1_Witness ==
  /\ ev.kind = "update"
  /\ called = <<"update">>
  /\ app.expand = 0
  /\ app.player # Player0

C3_FrameOrder ==
  /\ ev.kind = "render" => "update" \in ran
  /\ ev.kind = "press" => "update" \notin ran /\ "render" \notin ran

\* C3 as amended: every loop iteration runs exactly the handler of the
\* event it was given, so within a frame the handlers run in the order in
\* which the event source delivers the frame's events: the frame's update
\* and render have run exactly when their signal has been delivered.
C3_DeliveryOrder ==
  ev.kind # "none" =>
    /\ called = <<IF ev.kind = "press" THEN "handleKey" ELSE ev.kind>>
    /\ ran \cap Signals = Signals \ due

\* a key press handled after the frame's render and before its update
C3_Witness ==
  /\ ev.kind = "press"
  /\ ran = {"render", "handleKey"}
  /\ due = {"update"}

\* C4: handleKey with a button other than Up, Down, Left, Right and Space
\* returns normally and leaves the position and expand as they were.
C4_OtherKeyNoOp ==
  \A i \in 1..Len(calls) :
    (calls[i].op = "handleKey" /\ calls[i].arg \in OtherButtons) =>
      Same(After(i), Before(i))

\* an unrecognised key and a mouse button handled on a grown square
C4_Witness ==
  /\ Len(calls) = 2
  /\ IsKey(1, "A")
  /\ IsKey(2, "MouseLeft")
  /\ start.expand = F(20)

\* C5: Right then Left, Left then Right, Up then Down and Down then Up each
\* restore the position they started from, and expand stays as it was after
\* each of the two presses.
C5_InversePairs ==
  \A i \in 1..(Len(calls) - 1) :
    (\/ IsKey(i, "Right") /\ IsKey(i + 1, "Left")
     \/ IsKey(i, "Left") /\ IsKey(i + 1, "Right")
     \/ IsKey(i, "Up") /\ IsKey(i + 1, "Down")
     \/ IsKey(i, "Down") /\ IsKey(i + 1, "Up")) =>
      /\ After(i + 1).player = Before(i).player
      /\ After(i).player # Before(i).player
      /\ After(i).expand = Before(i).expand
      /\ After(i + 1).expand = Before(i).expand

\* Left then Right from a position left of the canvas, after an Up
C5_Witness ==
  /\ Len(calls) = 3
  /\ IsKey(1, "Up")
  /\ IsKey(2, "Left")
  /\ IsKey(3, "Right")
  /\ start.player = Pos(0 - 10, 50)
  /\ app.player = Pos(0 - 10, 40)

C7_RenderGeometry ==
  \A i \in 1..Len(calls) :
    calls[i].op = "render" =>
      LET b == Before(i)
          g == After(i).gl
      IN  /\ Len(g) = 2
          /\ g[1] = [op |-> "clear", width |-> calls[i].arg.width,
                     height |-> calls[i].arg.height, color |-> Grey]
          /\ g[2].op = "rect"
          /\ g[2].color = Red
          /\ 2 * g[2].x = 2 * b.player.x - b.expand
          /\ 2 * g[2].y = 2 * b.player.y - b.expand
          /\ g[2].w = F(10) + b.expand
          /\ g[2].h = F(10) + b.expand
          /\ (b.player = Pos(50, 50) /\ b.expand = F(20)) =>
               /\ g[2].x = F(40) /\ g[2].y = F(40)
               /\ g[2].w = F(30) /\ g[2].h = F(30)

\* Space twice from (50,50) with no effect, then a render
C7_Witness ==
  /\ Len(calls) = 3
  /\ IsKey(1, "Space")
  /\ IsKey(2, "Space")
  /\ calls[3].op = "render"
  /\ start.player = Pos(50, 50)
  /\ start.expand = 0
  /\ Rect(3).x = F(40)
  /\ Rect(3).w = F(30)

\* C8: from the initial state of main, one Space press gives expand 10, ten
\* updates then give expand 0, a Right press then gives position (60,50),
\* and a render then draws the rectangle x=60, y=50, w=10, h=10.
C8_Scenario ==
  /\ scen = 0 => app.player = Pos(50, 50) /\ app.expand = 0
  /\ scen = 1 => app.expand = F(10)
  /\ scen \in 1..11 => app.expand = F(11 - scen) /\ app.player = Pos(50, 50)
  /\ scen = 12 => app.player = Pos(60, 50) /\ app.expand = 0
  /\ scen = 13 =>
       /\ Len(app.gl) = 2
       /\ app.gl[2] = [op |-> "rect", x |-> F(60), y |-> F(50),
                       w |-> F(10), h |-> F(10), color |-> Red]

\* the scenario has been played to its end
C8_Witness == scen = Len(Script) /\ ev.kind = "render" /\ Len(app.gl) = 2

\* C9: k consecutive Space presses raise expand by exactly 10 * k, for every
\* k, and leave the position unchanged: there is no cap.
C9_SpaceStacks ==
  \A i \in 1..Len(calls) : \A j \in i..Len(calls) :
    (\A n \in i..j : IsKey(n, "Space")) =>
      /\ After(j).expand = Before(i).expand + F(10) * (j - i + 1)
      /\ After(j).player = Before(i).player

\* as many Space presses as the harness makes, on a square already grown
C9_Witness ==
  /\ Len(calls) = MaxCalls
  /\ \A n \in 1..Len(calls) : IsKey(n, "Space")
  /\ start.expand = F(20)
  /\ app.expand = F(20) + F(10) * MaxCalls

\* C10: Up gives y - 10, Down gives y + 10, Left gives x - 10, Right gives
\* x + 10; the other coordinate and expand are unchanged.
C10_ArrowSteps ==
  \A i \in 1..Len(calls) :
    LET b == Before(i)
        a == After(i)
    IN  /\ IsKey(i, "Up") =>
             a.player = [x |-> b.player.x, y |-> b.player.y - F(10)]
        /\ IsKey(i, "Down") =>
             a.player = [x |-> b.player.x, y |-> b.player.y + F(10)]
        /\ IsKey(i, "Left") =>
             a.player = [x |-> b.player.x - F(10), y |-> b.player.y]
        /\ IsKey(i, "Right") =>
             a.player = [x |-> b.player.x + F(10), y |-> b.player.y]
        /\ (calls[i].op = "handleKey" /\ calls[i].arg \in Arrows) =>
             a.expand = b.expand

\* Up, Left and Down from (50,50) on a grown square
C10_Witness ==
  /\ Len(calls) = 3
  /\ IsKey(1, "Up")
  /\ IsKey(2, "Left")
  /\ IsKey(3, "Down")
  /\ start.player = Pos(50, 50)
  /\ start.expand = F(10)
  /\ app.player = Pos(40, 50)

\* C11: once the event sequence has ended the loop of main is over: it never
\* runs again, and no handler is invoked and no event taken after that
\* point.
C11_NothingAfterClose ==
  [][~running => (~running' /\ app' = app /\ called' = called /\ ev' = ev /\ ran' = ran)]_vars

\* the window was closed in the middle of a frame, the square still grown
C11_Witness ==
  /\ ~running
  /\ ev.kind = "update"
  /\ due = {"render"}
  /\ app.expand > 0

\* C12: handleKey, update and render never overlap: at most one of them is
\* executing at any moment, none is executing when the loop takes the next
\* event, and the key presses are applied in the order in which the event
\* source delivered them.
C12_NoOverlap ==
  /\ Cardinality(executing) <= 1
  /\ pc = "next" => (executing = {} /\ applied = delivered)
  /\ Len(applied) <= Len(delivered)
  /\ applied = SubSeq(delivered, 1, Len(applied))
  /\ Len(delivered) - Len(applied) <= 1

\* handleKey is executing for the last of several different key presses,
\* the earlier ones applied
C12_Witness ==
  /\ executing = {"handleKey"}
  /\ pc = "calling handleKey"
  /\ Len(delivered) = MaxKeys
  /\ Len(applied) = MaxKeys - 1
  /\ delivered[1] = "Space"
  /\ delivered[2] = "Left"
  /\ app.expand = F(9)

\* C13: one update call lowers expand by exactly 1 when expand > 0 and
\* leaves it unchanged when expand is 0; it never raises expand, and its
\* result is the same whatever UpdateArgs it is given.
C13_UpdateStep ==
  \A i \in 1..Len(calls) :
    calls[i].op = "update" =>
      /\ Before(i).expand > 0 => After(i).expand = Before(i).expand - F(1)
      /\ Before(i).expand = 0 => After(i).expand = 0
      /\ After(i).expand <= Before(i).expand
      /\ \A j \in 1..Len(calls) :
           (calls[j].op = "update" /\ Before(j).expand = Before(i).expand) =>
             After(j).expand = After(i).expand

\* update with different elapsed times: at expand 1, then twice at 0
C13_Witness ==
  /\ Len(calls) = 3
  /\ \A i \in 1..3 : calls[i].op = "update"
  /\ calls[2].arg # calls[3].arg
  /\ start.expand = F(1)
  /\ app.expand = 0

\* C14: only the four directional key presses change the position: every
\* step of the loop that changes a coordinate handles Up, Down, Left or
\* Right, so update, render, Space and unrecognised keys leave it alone.
C14_OnlyArrowsMove ==
  [][app'.player # app.player => (ev'.kind = "press" /\ ev'.button \in Arrows)]_vars

\* an update has decayed the effect of a square that was moved before
C14_Witness ==
  /\ ev.kind = "update"
  /\ app.expand = F(5)
  /\ app.player = Pos(60, 40)

\* C15: every event triggers exactly one handler call: a key press one
\* handleKey and no update or render, an update signal one update and
\* nothing else, a render signal one render and nothing else; so a frame,
\* which has one update signal and one render signal, has run update
\* exactly once and render exactly once when it is complete.
C15_OneHandlerPerEvent ==
  /\ ev.kind # "none" =>
       /\ Len(called) = 1
       /\ Times("handleKey", called) = (IF ev.kind = "press" THEN 1 ELSE 0)
       /\ Times("update", called) = (IF ev.kind = "update" THEN 1 ELSE 0)
       /\ Times("render", called) = (IF ev.kind = "render" THEN 1 ELSE 0)
  /\ due = {} => (runs["update"] = 1 /\ runs["render"] = 1)
  /\ \A k \in Signals : runs[k] <= 1

\* a complete frame that also had a key press: render, key, update
C15_Witness ==
  /\ due = {}
  /\ ev.kind = "update"
  /\ ran = {"handleKey", "update", "render"}
  /\ runs["render"] = 1
  /\ app.expand = F(9)

\* C16: the centre of the rectangle render draws is (x + 5, y + 5) for
\* every value of expand: the effect changes the size of the rectangle and
\* never moves its centre.
C16_CentreFixed ==
  \A i \in 1..Len(calls) :
    calls[i].op = "render" =>
      LET r == After(i).gl[Len(After(i).gl)]
          b == Before(i)
      IN  /\ 2 * r.x + r.w = 2 * (b.player.x + F(5))
          /\ 2 * r.y + r.h = 2 * (b.player.y + F(5))
          /\ \A j \in 1..Len(calls) :
               (calls[j].op = "render" /\ Before(j).player = b.player) =>
                 LET q == After(j).gl[Len(After(j).gl)]
                 IN  2 * q.x + q.w = 2 * r.x + r.w /\ 2 * q.y + q.h = 2 * r.y + r.h

\* the same square rendered before and after a Space press: two sizes
C16_Witness ==
  /\ Len(calls) = 3
  /\ calls[1].op = "render"
  /\ IsKey(2, "Space")
  /\ calls[3].op = "render"
  /\ Rect(1).w = F(11)
  /\ Rect(3).w = F(21)
  /\ start.player = Pos(0 - 10, 50)

\* C17: in every state the loop of main can reach, expand is a whole
\* number, so the guard of update never meets a value strictly between 0
\* and 1 and an update never leaves a negative value.
C17_ExpandWhole ==
  /\ app.expand % Unit = 0
  /\ ~(0 < app.expand /\ app.expand < F(1))
  /\ ev.kind = "update" => app.expand >= 0

\* the last unit of the effect is about to decay: an update has left 1
C17_Witness ==
  /\ ev.kind = "update"
  /\ app.expand = F(1)
  /\ called = <<"update">>

\* C18: after any sequence of events x = 50 + 10 * (Right presses - Left
\* presses) and y = 50 + 10 * (Down presses - Up presses); the position is
\* never clamped to the canvas, so negative coordinates and coordinates
\* beyond the canvas extents occur.
C18_PositionIsNetCount ==
  /\ app.player.x = F(50) + F(10) * net.x
  /\ app.player.y = F(50) + F(10) * net.y

\* the square rendered left of and below a 100x100 canvas
C18_Witness ==
  /\ ev.kind = "render"
  /\ app.player.x < 0
  /\ app.player.y > F(ev.args.height)
  /\ net.x = 0 - 6
  /\ net.y = 6
  /\ app.gl[2].x < 0

\* C19: in a loop that keeps running, if from some point on no Space press
\* occurs, then (update signals being delivered again and again) expand
\* eventually is 0 and remains 0, whatever arrow keys, other keys and
\* renders come in between.
C19_DecaysForGood ==
  ([]running /\ <>[][~SpaceStep]_vars) => <>[](app.expand = 0)

\* the effect has decayed to 0 in a running loop, keys pressed on the way
C19_Witness ==
  /\ running
  /\ ev.kind = "update"
  /\ app.expand = 0
  /\ scen = Off
  /\ net.x = 1
  /\ "handleKey" \in ran

====
